---- MODULE Spec2Model ----
(***************************************************************************)
(* State-machine model of src/telegram_bot.py: the module-level start-up   *)
(* code, main(), the python-telegram-bot handler chain that main()         *)
(* registers, the survey and feedback conversations and the Firestore      *)
(* write of a finished survey.                                             *)
(*                                                                         *)
(* A message text is a sequence of tokens, one token per character or per  *)
(* run of label characters, so that strip(), int(), the command filter and *)
(* the regular expressions built from the button labels are computed and   *)
(* not assumed.  Every user talks to the bot in one private chat, so the   *)
(* conversation key (chat id, user id) is the user id.  The application    *)
(* handles one update at a time (concurrent_updates is off), so a handler  *)
(* is one atomic step in Spec; SpecStatements takes the last handler of    *)
(* the survey, q5_comments_and_save, one statement at a time.              *)
(***************************************************************************)
EXTENDS Integers, Sequences, FiniteSets, TLC

VARIABLES
    pc,              \* position of the process: "import", "loaded", "run_webhook"
    env,             \* the process environment read by os.getenv
    TELEGRAM_TOKEN,  \* module global, line 38 / 52
    WEBHOOK_URL,     \* module global, line 39 / 53
    error_logged,    \* logger.error of line 50 has been emitted
    db,              \* module global: TRUE iff the Firestore client exists
    survey_state,    \* survey_conv_handler's conversation state per user
    feedback_state,  \* feedback_conv_handler's conversation state per user
    user_data,       \* context.user_data per user
    add_calls,       \* the calls collection_ref.add(...) made so far, in order
    reply,           \* what was replied to the last update, and to whom
    updates,         \* number of updates delivered so far
    scenario,        \* the users and the messages of this behaviour
    running          \* the call of q5_comments_and_save that is under way

vars == <<pc, env, TELEGRAM_TOKEN, WEBHOOK_URL, error_logged, db, survey_state,
          feedback_state, user_data, add_calls, reply, updates, scenario,
          running>>

---------------------------------------------------------------------------
(* Bounds of the model *)

\* number of updates the transport delivers in one behaviour
MaxUpdates == 7

\* the users (update.effective_user.id)
Users == {1, 2}

---------------------------------------------------------------------------
(* Constants of the program *)

SURVEY_BTN == <<"Survey">>
ILLNESS_BTN == <<"Illness", "(", "thalamic", ")">>
INFO_BTN == <<"Info">>
EMERGENCY_BTN == <<"Emergency">>
CANCEL_BTN == <<"Cancel">>

Q1_PAIN == 1
Q2_SLEEP == 2
Q3_MEDICATION == 3
Q4_SIDE_EFFECTS == 4
Q5_COMMENTS == 5
FEEDBACK_TEXT == 6
\* ConversationHandler.END; the conversation key is then absent (state None)
END == -1

SurveyStates == {Q1_PAIN, Q2_SLEEP, Q3_MEDICATION, Q4_SIDE_EFFECTS, Q5_COMMENTS}

\* the bounds of a valid pain score, line 267
PAIN_MIN == 0
PAIN_MAX == 10

AnswerFields == {"pain_score", "sleep_description", "medication_compliance",
                 "side_effects", "comments"}

---------------------------------------------------------------------------
(* Messages *)

\* a message with a text, and a message without one (a photo, a sticker)
TextMessage(t) == [has_text |-> TRUE, text |-> t]
NoTextMessage == [has_text |-> FALSE, text |-> <<>>]

Command(name) == TextMessage(<<"/", name>>)

\* The environment of a behaviour: the users who write to the bot and the
\* messages they choose from.  Each scenario keeps the vocabulary small; the
\* handlers are the same in all of them.
Scenario(users, texts, others) ==
    [users |-> users, messages |-> {TextMessage(t) : t \in texts} \cup others]

\* two users who fill in surveys, cancel and leave feedback
TwoUsers ==
    Scenario(Users, {SURVEY_BTN, <<"1", "0">>, <<" ", "5", " ">>, CANCEL_BTN},
             {Command("cancel"), Command("feedback")})

\* one user who answers the pain question with valid scores
ValidScores ==
    Scenario({1}, {SURVEY_BTN, <<"0">>, <<"1", "0">>, <<" ", "5", " ">>}, {})

\* one user who answers the pain question with everything but a valid score
InvalidScores ==
    Scenario({1}, {SURVEY_BTN, <<"1", "1">>, <<"-", "1">>, <<"a">>, CANCEL_BTN},
             {NoTextMessage, Command("help"), Command("feedback")})

\* one user who presses the menu buttons and types around them
Menu ==
    Scenario({1}, {SURVEY_BTN, ILLNESS_BTN, <<"Illness", "thalamic">>, INFO_BTN,
                   EMERGENCY_BTN, <<"Info", "a">>, <<"a">>},
             {NoTextMessage, Command("start"), Command("help")})

\* one user who answers the survey with the labels of the menu buttons
Lookalikes ==
    Scenario({1}, {SURVEY_BTN, <<"1", "0">>, ILLNESS_BTN, INFO_BTN, EMERGENCY_BTN},
             {Command("start")})

Scenarios == {TwoUsers, ValidScores, InvalidScores, Menu, Lookalikes}

Messages == UNION {sc.messages : sc \in Scenarios}

---------------------------------------------------------------------------
(* str.strip() and int() *)

IsSpace(c) == c = " "

RECURSIVE LStrip(_)
LStrip(s) == IF s # <<>> /\ IsSpace(Head(s)) THEN LStrip(Tail(s)) ELSE s

RECURSIVE RStrip(_)
RStrip(s) ==
    IF s # <<>> /\ IsSpace(s[Len(s)]) THEN RStrip(SubSeq(s, 1, Len(s) - 1)) ELSE s

\* str.strip(): leading and trailing whitespace removed
Strip(s) == RStrip(LStrip(s))

Digits == {"0", "1", "2", "3", "4", "5", "6", "7", "8", "9"}

DigitValue(c) ==
    CASE c = "0" -> 0 [] c = "1" -> 1 [] c = "2" -> 2 [] c = "3" -> 3
      [] c = "4" -> 4 [] c = "5" -> 5 [] c = "6" -> 6 [] c = "7" -> 7
      [] c = "8" -> 8 [] c = "9" -> 9

RECURSIVE DecimalValue(_)
DecimalValue(s) ==
    IF s = <<>> THEN 0
    ELSE 10 * DecimalValue(SubSeq(s, 1, Len(s) - 1)) + DigitValue(s[Len(s)])

\* the digits of a literal, after its optional sign
Unsigned(s) == IF s # <<>> /\ Head(s) \in {"+", "-"} THEN Tail(s) ELSE s

\* int(s) does not raise ValueError: optional sign, then one or more digits
IntParses(s) ==
    LET body == Unsigned(Strip(s))
    IN  body # <<>> /\ \A i \in 1..Len(body) : body[i] \in Digits

\* the value of int(s), for a text that parses
IntValue(s) ==
    LET t == Strip(s)
        v == DecimalValue(Unsigned(t))
    IN  IF t # <<>> /\ Head(t) = "-" THEN 0 - v ELSE v

---------------------------------------------------------------------------
(* telegram.ext.filters, as main() combines them *)

\* filters.TEXT: the message has a (non-empty) text
FilterText(m) == m.has_text /\ m.text # <<>>

\* filters.COMMAND: the text starts with a bot command
FilterCommand(m) == m.has_text /\ m.text # <<>> /\ Head(m.text) = "/"

\* CommandHandler(name, ...): the text is the command /name
IsCommand(m, name) == FilterCommand(m) /\ Len(m.text) >= 2 /\ m.text[2] = name

\* What a label matches once it is interpolated into a pattern: the
\* parentheses of the label open and close a group and match no character.
RegexBody(label) == SelectSeq(label, LAMBDA c : c \notin {"(", ")"})

\* One alternative of a pattern: a literal, anchored at the start and/or end.
Alt(atStart, lit, atEnd) == [start |-> atStart, lit |-> lit, end |-> atEnd]

\* re.search of a pattern (a set of alternatives) in a text
Search(pattern, text) ==
    \E a \in pattern : \E i \in 0..(Len(text) - Len(a.lit)) :
        /\ SubSeq(text, i + 1, i + Len(a.lit)) = a.lit
        /\ a.start => i = 0
        /\ a.end => i + Len(a.lit) = Len(text)

\* filters.Regex(f"^{label}$")
FilterButton(m, label) ==
    m.has_text /\ Search({Alt(TRUE, RegexBody(label), TRUE)}, m.text)

\* filters.Regex(f"^{SURVEY_BTN}|{ILLNESS_BTN}|{INFO_BTN}|{EMERGENCY_BTN}$"):
\* alternation binds loosest, so ^ belongs to the first alternative only and
\* $ to the last only
FilterMenuRegex(m) ==
    m.has_text /\ Search({ Alt(TRUE, RegexBody(SURVEY_BTN), FALSE),
                           Alt(FALSE, RegexBody(ILLNESS_BTN), FALSE),
                           Alt(FALSE, RegexBody(INFO_BTN), FALSE),
                           Alt(FALSE, RegexBody(EMERGENCY_BTN), TRUE) }, m.text)

\* faulty variant: the texts of the menu are not taken as answers either
FilterAnswer_NoMenuTexts(m) ==
    FilterText(m) /\ ~FilterCommand(m) /\ ~FilterButton(m, CANCEL_BTN)
        /\ ~FilterMenuRegex(m)

\* filters.TEXT & ~filters.COMMAND & ~filters.Regex(f"^{CANCEL_BTN}$")
FilterAnswer(m) ==
    FilterText(m) /\ ~FilterCommand(m) /\ ~FilterButton(m, CANCEL_BTN)

\* the filter of other_text, line 431
FilterOther(m) == FilterText(m) /\ ~FilterCommand(m) /\ ~FilterMenuRegex(m)

---------------------------------------------------------------------------
(* Dictionaries *)

EmptyDict == [k \in {} |-> 0]

Put(d, k, v) == [x \in DOMAIN d \cup {k} |-> IF x = k THEN v ELSE d[x]]

Pop(d, k) == [x \in DOMAIN d \ {k} |-> d[x]]

\* dict.get(k, default)
Get(d, k, default) == IF k \in DOMAIN d THEN d[k] ELSE default

---------------------------------------------------------------------------
(* The handler chain of group 0, in the order main() adds it *)

NoHandler == [conv |-> "none", callback |-> "none"]

\* faulty variant: q3_medication is registered under Q2_SLEEP as well
SurveyStateCallback_SkipsSleep(state) ==
    CASE state = Q1_PAIN -> "q1_pain"
      [] state = Q2_SLEEP -> "q3_medication"
      [] state = Q3_MEDICATION -> "q3_medication"
      [] state = Q4_SIDE_EFFECTS -> "q4_side_effects"
      [] state = Q5_COMMENTS -> "q5_comments_and_save"

\* the handler list of a state of survey_conv_handler, lines 398-404
SurveyStateCallback(state) ==
    CASE state = Q1_PAIN -> "q1_pain"
      [] state = Q2_SLEEP -> "q2_sleep"
      [] state = Q3_MEDICATION -> "q3_medication"
      [] state = Q4_SIDE_EFFECTS -> "q4_side_effects"
      [] state = Q5_COMMENTS -> "q5_comments_and_save"

\* fallbacks=[cancel_command_handler, cancel_message_handler], lines 391-393
Fallback(m) ==
    IF IsCommand(m, "cancel") THEN "cancel"
    ELSE IF FilterButton(m, CANCEL_BTN) THEN "cancel_button_handler"
    ELSE "none"

\* ConversationHandler.check_update of survey_conv_handler (allow_reentry is
\* off): the entry points when the user has no state, else the handlers of
\* the state and then the fallbacks
SurveyConvCheck(state, m) ==
    IF state = END
    THEN IF FilterButton(m, SURVEY_BTN) THEN "start_survey" ELSE "none"
    ELSE IF FilterAnswer(m) THEN SurveyStateCallback(state) ELSE Fallback(m)

\* ConversationHandler.check_update of feedback_conv_handler
FeedbackConvCheck(state, m) ==
    IF state = END
    THEN IF IsCommand(m, "feedback") THEN "start_feedback" ELSE "none"
    ELSE IF FilterAnswer(m) THEN "receive_feedback_and_save" ELSE Fallback(m)

\* faulty variant: feedback_conv_handler is added before survey_conv_handler
Dispatch_FeedbackFirst(u, m) ==
    IF IsCommand(m, "start") THEN [conv |-> "app", callback |-> "start"]
    ELSE IF FeedbackConvCheck(feedback_state[u], m) # "none"
    THEN [conv |-> "feedback", callback |-> FeedbackConvCheck(feedback_state[u], m)]
    ELSE IF SurveyConvCheck(survey_state[u], m) # "none"
    THEN [conv |-> "survey", callback |-> SurveyConvCheck(survey_state[u], m)]
    ELSE IF FilterButton(m, ILLNESS_BTN)
    THEN [conv |-> "app", callback |-> "show_illness_info"]
    ELSE IF FilterButton(m, INFO_BTN) THEN [conv |-> "app", callback |-> "show_info"]
    ELSE IF FilterButton(m, EMERGENCY_BTN)
    THEN [conv |-> "app", callback |-> "show_emergency"]
    ELSE IF FilterOther(m) THEN [conv |-> "app", callback |-> "other_text"]
    ELSE NoHandler

\* Application.process_update: the first handler of the group that accepts
\* the update handles it, and no other
Dispatch(u, m) ==
    IF IsCommand(m, "start") THEN [conv |-> "app", callback |-> "start"]
    ELSE IF SurveyConvCheck(survey_state[u], m) # "none"
    THEN [conv |-> "survey", callback |-> SurveyConvCheck(survey_state[u], m)]
    ELSE IF FeedbackConvCheck(feedback_state[u], m) # "none"
    THEN [conv |-> "feedback", callback |-> FeedbackConvCheck(feedback_state[u], m)]
    ELSE IF FilterButton(m, ILLNESS_BTN)
    THEN [conv |-> "app", callback |-> "show_illness_info"]
    ELSE IF FilterButton(m, INFO_BTN) THEN [conv |-> "app", callback |-> "show_info"]
    ELSE IF FilterButton(m, EMERGENCY_BTN)
    THEN [conv |-> "app", callback |-> "show_emergency"]
    ELSE IF FilterOther(m) THEN [conv |-> "app", callback |-> "other_text"]
    ELSE NoHandler

---------------------------------------------------------------------------
(* Start-up *)

\* os.getenv of a variable: None, the empty string, or a value
EnvValues == {"None", "", "set"}

\* truthiness of a value read from the environment
Truthy(v) == v \notin {"None", ""}

\* x or default
Or(v, default) == IF Truthy(v) THEN v ELSE default

NoReply == [to |-> 0, kind |-> "none", echo |-> <<>>]

\* no call of q5_comments_and_save is under way
NoCall == [user |-> 0, at |-> "none", success |-> "none",
           final_survey_data |-> EmptyDict]

Init ==
    /\ pc = "import"
    /\ env \in [TELEGRAM_TOKEN : EnvValues, RENDER_EXTERNAL_HOSTNAME : EnvValues,
                FIREBASE_CONFIG_JSON : EnvValues]
    /\ TELEGRAM_TOKEN = "None"
    /\ WEBHOOK_URL = "None"
    /\ error_logged = FALSE
    /\ db = FALSE
    /\ survey_state = [u \in Users |-> END]
    /\ feedback_state = [u \in Users |-> END]
    /\ user_data = [u \in Users |-> EmptyDict]
    /\ add_calls = <<>>
    /\ reply = NoReply
    /\ updates = 0
    /\ scenario \in Scenarios
    /\ running = NoCall

\* faulty variant: the check fires only when both variables are absent
ConfigCheck_NeedsBoth ==
    LET missing == ~Truthy(env.TELEGRAM_TOKEN) /\ ~Truthy(env.RENDER_EXTERNAL_HOSTNAME)
    IN  /\ error_logged' = missing
        /\ TELEGRAM_TOKEN' = IF missing THEN Or(env.TELEGRAM_TOKEN, "FAKE_TOKEN")
                             ELSE env.TELEGRAM_TOKEN
        /\ WEBHOOK_URL' = IF missing THEN Or(env.RENDER_EXTERNAL_HOSTNAME, "FAKE_URL")
                          ELSE env.RENDER_EXTERNAL_HOSTNAME

\* lines 38-53: the check of the mandatory variables
ConfigCheck ==
    LET missing == ~Truthy(env.TELEGRAM_TOKEN) \/ ~Truthy(env.RENDER_EXTERNAL_HOSTNAME)
    IN  /\ error_logged' = missing
        /\ TELEGRAM_TOKEN' = IF missing THEN Or(env.TELEGRAM_TOKEN, "FAKE_TOKEN")
                             ELSE env.TELEGRAM_TOKEN
        /\ WEBHOOK_URL' = IF missing THEN Or(env.RENDER_EXTERNAL_HOSTNAME, "FAKE_URL")
                          ELSE env.RENDER_EXTERNAL_HOSTNAME

\* lines 56-83: the Firestore client is created if the configuration is
\* there; a configuration that does not initialise is one that is not there
FirebaseInit == db' = Truthy(env.FIREBASE_CONFIG_JSON)

\* the module-level code, run once when the module is loaded
import_module ==
    /\ pc = "import"
    /\ ConfigCheck
    /\ FirebaseInit
    /\ pc' = "loaded"
    /\ UNCHANGED <<env, survey_state, feedback_state, user_data, add_calls, reply,
                   updates, scenario, running>>

\* main(): builds the application, adds the handlers and calls run_webhook,
\* whatever the configuration check found
main ==
    /\ pc = "loaded"
    /\ pc' = "run_webhook"
    /\ UNCHANGED <<env, TELEGRAM_TOKEN, WEBHOOK_URL, error_logged, db, survey_state,
                   feedback_state, user_data, add_calls, reply, updates, scenario,
                   running>>

---------------------------------------------------------------------------
(* Delivery of an update *)

ProcessVars == <<pc, env, TELEGRAM_TOKEN, WEBHOOK_URL, error_logged, db, scenario>>

\* The transport delivers an update of user u to the running webhook.  It
\* delivers none to a bot whose token or webhook URL is a placeholder, and
\* the application takes the next update when the handler of the last one
\* has returned.
Accepted(u, m) ==
    /\ running = NoCall
    /\ pc = "run_webhook"
    /\ u \in scenario.users
    /\ m \in scenario.messages
    /\ TELEGRAM_TOKEN # "FAKE_TOKEN"
    /\ WEBHOOK_URL # "FAKE_URL"
    /\ updates < MaxUpdates
    /\ updates' = updates + 1
    /\ UNCHANGED ProcessVars

\* an update that its handler deals with in one step
Received(u, m) == Accepted(u, m) /\ UNCHANGED running

\* update.message.reply_text(...)
Reply(u, kind, echo) == reply' = [to |-> u, kind |-> kind, echo |-> echo]

\* A handler that raises: the application logs the exception, nothing is
\* replied and the conversation state stays
Raises(u, exception) ==
    /\ Reply(u, exception, <<>>)
    /\ UNCHANGED <<survey_state, feedback_state, user_data, add_calls>>

\* ConversationHandler._update_state of the conversation that dispatched
SetState(conv, u, new_state) ==
    /\ survey_state' = IF conv = "survey" THEN [survey_state EXCEPT ![u] = new_state]
                       ELSE survey_state
    /\ feedback_state' = IF conv = "feedback"
                         THEN [feedback_state EXCEPT ![u] = new_state]
                         ELSE feedback_state

\* a handler outside the conversations: replies a fixed text, writes nothing
StaticReply(u, kind) ==
    /\ Reply(u, kind, <<>>)
    /\ UNCHANGED <<survey_state, feedback_state, user_data, add_calls>>

start(u, m) ==
    /\ Received(u, m)
    /\ Dispatch(u, m).callback = "start"
    /\ StaticReply(u, "welcome")

show_illness_info(u, m) ==
    /\ Received(u, m)
    /\ Dispatch(u, m).callback = "show_illness_info"
    /\ StaticReply(u, "illness_info")

show_info(u, m) ==
    /\ Received(u, m)
    /\ Dispatch(u, m).callback = "show_info"
    /\ StaticReply(u, "info")

show_emergency(u, m) ==
    /\ Received(u, m)
    /\ Dispatch(u, m).callback = "show_emergency"
    /\ StaticReply(u, "emergency")

other_text(u, m) ==
    /\ Received(u, m)
    /\ Dispatch(u, m).callback = "other_text"
    /\ StaticReply(u, "not_understood")

\* no handler of the group accepts the update: nothing runs, nothing is sent
unhandled(u, m) ==
    /\ Received(u, m)
    /\ Dispatch(u, m) = NoHandler
    /\ StaticReply(u, "none")

---------------------------------------------------------------------------
(* The feedback conversation *)

start_feedback(u, m) ==
    /\ Received(u, m)
    /\ Dispatch(u, m).callback = "start_feedback"
    /\ Reply(u, "feedback_prompt", <<>>)
    /\ SetState("feedback", u, FEEDBACK_TEXT)
    /\ UNCHANGED <<user_data, add_calls>>

receive_feedback_and_save(u, m) ==
    /\ Received(u, m)
    /\ Dispatch(u, m).callback = "receive_feedback_and_save"
    /\ Reply(u, "feedback_ack", <<>>)
    /\ SetState("feedback", u, END)
    /\ UNCHANGED <<user_data, add_calls>>

---------------------------------------------------------------------------
(* The survey conversation *)

start_survey(u, m) ==
    /\ Received(u, m)
    /\ Dispatch(u, m).callback = "start_survey"
    /\ user_data' = [user_data EXCEPT ![u] = Put(@, "survey", EmptyDict)]
    /\ Reply(u, "pain_prompt", <<>>)
    /\ SetState("survey", u, Q1_PAIN)
    /\ UNCHANGED add_calls

\* faulty variant: the comparison with the lower bound is strict
PainInRange_ExclusiveLow(p) == PAIN_MIN < p /\ p <= PAIN_MAX

\* faulty variant: the lower bound is not checked
PainInRange_NoLowerBound(p) == p <= PAIN_MAX

\* 0 <= pain_score <= 10
PainInRange(p) == PAIN_MIN <= p /\ p <= PAIN_MAX

q1_pain(u, m) ==
    /\ Received(u, m)
    /\ Dispatch(u, m).callback = "q1_pain"
    /\ IF IntParses(m.text) /\ PainInRange(IntValue(m.text))
       THEN IF "survey" \in DOMAIN user_data[u]
            THEN /\ user_data' = [user_data EXCEPT
                        ![u]["survey"] = Put(@, "pain_score", IntValue(m.text))]
                 /\ Reply(u, "sleep_prompt", <<IntValue(m.text)>>)
                 /\ SetState("survey", u, Q2_SLEEP)
                 /\ UNCHANGED add_calls
            ELSE Raises(u, "KeyError")
       ELSE /\ Reply(u, "invalid_pain", <<>>)
            /\ SetState("survey", u, Q1_PAIN)
            /\ UNCHANGED <<user_data, add_calls>>

\* faulty variant: the answer is acknowledged and not stored
FreeTextStep_DropsAnswer(u, m, field, prompt, next_state) ==
    IF "survey" \in DOMAIN user_data[u]
    THEN /\ Reply(u, prompt, <<>>)
         /\ SetState("survey", u, next_state)
         /\ UNCHANGED <<user_data, add_calls>>
    ELSE Raises(u, "KeyError")

\* q2_sleep, q3_medication, q4_side_effects: store the stripped text and go on
FreeTextStep(u, m, field, prompt, next_state) ==
    IF "survey" \in DOMAIN user_data[u]
    THEN /\ user_data' = [user_data EXCEPT ![u]["survey"] = Put(@, field, Strip(m.text))]
         /\ Reply(u, prompt, <<>>)
         /\ SetState("survey", u, next_state)
         /\ UNCHANGED add_calls
    ELSE Raises(u, "KeyError")

q2_sleep(u, m) ==
    /\ Received(u, m)
    /\ Dispatch(u, m).callback = "q2_sleep"
    /\ FreeTextStep(u, m, "sleep_description", "medication_prompt", Q3_MEDICATION)

q3_medication(u, m) ==
    /\ Received(u, m)
    /\ Dispatch(u, m).callback = "q3_medication"
    /\ FreeTextStep(u, m, "medication_compliance", "side_effects_prompt",
                    Q4_SIDE_EFFECTS)

q4_side_effects(u, m) ==
    /\ Received(u, m)
    /\ Dispatch(u, m).callback = "q4_side_effects"
    /\ FreeTextStep(u, m, "side_effects", "comments_prompt", Q5_COMMENTS)

---------------------------------------------------------------------------
(* The write of a finished survey *)

\* faulty variant: the path of the collection leaves out the user
get_survey_collection_ref_Shared(user_id) == IF db THEN <<1>> ELSE <<>>

\* get_survey_collection_ref: the collection of the user's entries,
\* /artifacts/{appId}/users/{userId}/survey_entries, or None without a client
get_survey_collection_ref(user_id) == IF db THEN <<user_id>> ELSE <<>>

\* What `await collection_ref.add(survey_data)` can do.  The document is sent
\* when add() is called and the result is awaited afterwards, so the
\* statement can raise with the document committed as well as without.
AddOutcomes == {"returned", "raised_after_commit", "raised_before_commit"}

\* faulty variant: success is reported without a client
save_survey_data_Optimistic(user_id, survey_data) ==
    IF ~db THEN {[success |-> TRUE, calls |-> <<>>]}
    ELSE LET data == Put(Put(survey_data, "timestamp", "SERVER_TIMESTAMP"),
                         "date", "today")
         IN  { [success |-> (o = "returned"),
                calls |-> << [path |-> <<user_id>>, data |-> data,
                              committed |-> (o # "raised_before_commit")] >>]
               : o \in AddOutcomes }

\* faulty variant: a write that raised is tried a second time
save_survey_data_Retry(user_id, survey_data) ==
    IF ~db THEN {[success |-> FALSE, calls |-> <<>>]}
    ELSE LET data == Put(Put(survey_data, "timestamp", "SERVER_TIMESTAMP"),
                         "date", "today")
             call(done) == [path |-> <<user_id>>, data |-> data, committed |-> done]
         IN  { [success |-> TRUE, calls |-> <<call(TRUE)>>],
               [success |-> TRUE, calls |-> <<call(FALSE), call(TRUE)>>],
               [success |-> FALSE, calls |-> <<call(FALSE), call(FALSE)>>] }

\* save_survey_data: the possible results, each with the add() calls it made
save_survey_data(user_id, survey_data) ==
    IF ~db THEN {[success |-> FALSE, calls |-> <<>>]}
    ELSE LET data == Put(Put(survey_data, "timestamp", "SERVER_TIMESTAMP"),
                         "date", "today")
             collection_ref == get_survey_collection_ref(user_id)
         IN  IF collection_ref # <<>>
             THEN { [success |-> (o = "returned"),
                     calls |-> << [path |-> collection_ref, data |-> data,
                                   committed |-> (o # "raised_before_commit")] >>]
                    : o \in AddOutcomes }
             ELSE {[success |-> FALSE, calls |-> <<>>]}

\* final_survey_data.get('pain_score', 'N/A'), as the success message shows it
PainEcho(d) == IF "pain_score" \in DOMAIN d THEN <<d["pain_score"]>> ELSE <<>>

\* faulty variant: a failed write is raised out of the handler
q5_comments_and_save_Propagates(u, m) ==
    /\ Received(u, m)
    /\ Dispatch(u, m).callback = "q5_comments_and_save"
    /\ IF "survey" \in DOMAIN user_data[u]
       THEN LET final_survey_data == Put(user_data[u]["survey"], "comments",
                                         Strip(m.text))
            IN  \E r \in save_survey_data(u, final_survey_data) :
                    IF r.success
                    THEN /\ add_calls' = add_calls \o r.calls
                         /\ Reply(u, "success", PainEcho(final_survey_data))
                         /\ user_data' = [user_data EXCEPT ![u] = EmptyDict]
                         /\ SetState("survey", u, END)
                    ELSE /\ add_calls' = add_calls \o r.calls
                         /\ Reply(u, "Exception", <<>>)
                         /\ user_data' = [user_data EXCEPT
                                ![u]["survey"] = final_survey_data]
                         /\ UNCHANGED <<survey_state, feedback_state>>
       ELSE Raises(u, "KeyError")

q5_comments_and_save(u, m) ==
    /\ Received(u, m)
    /\ Dispatch(u, m).callback = "q5_comments_and_save"
    /\ IF "survey" \in DOMAIN user_data[u]
       THEN LET final_survey_data == Put(user_data[u]["survey"], "comments",
                                         Strip(m.text))
            IN  \E r \in save_survey_data(u, final_survey_data) :
                    /\ add_calls' = add_calls \o r.calls
                    /\ IF r.success
                       THEN Reply(u, "success", PainEcho(final_survey_data))
                       ELSE Reply(u, "failure", <<>>)
                    /\ user_data' = [user_data EXCEPT ![u] = EmptyDict]
                    /\ SetState("survey", u, END)
       ELSE Raises(u, "KeyError")

---------------------------------------------------------------------------
(* Cancellation *)

\* cancel: drops the survey record and ends the conversation that dispatched
CancelBody(u, conv) ==
    /\ user_data' = [user_data EXCEPT
            ![u] = IF "survey" \in DOMAIN @ THEN Pop(@, "survey") ELSE @]
    /\ Reply(u, "cancelled", <<>>)
    /\ SetState(conv, u, END)
    /\ UNCHANGED add_calls

cancel(u, m) ==
    /\ Received(u, m)
    /\ Dispatch(u, m).callback = "cancel"
    /\ CancelBody(u, Dispatch(u, m).conv)

cancel_button_handler(u, m) ==
    /\ Received(u, m)
    /\ Dispatch(u, m).callback = "cancel_button_handler"
    /\ CancelBody(u, Dispatch(u, m).conv)

---------------------------------------------------------------------------
(* The specification *)

\* the handling of one update of user u by a handler other than
\* q5_comments_and_save, whichever accepts it
DeliverOther(u, m) ==
    \/ start(u, m)
    \/ start_survey(u, m)
    \/ q1_pain(u, m)
    \/ q2_sleep(u, m)
    \/ q3_medication(u, m)
    \/ q4_side_effects(u, m)
    \/ start_feedback(u, m)
    \/ receive_feedback_and_save(u, m)
    \/ cancel(u, m)
    \/ cancel_button_handler(u, m)
    \/ show_illness_info(u, m)
    \/ show_info(u, m)
    \/ show_emergency(u, m)
    \/ other_text(u, m)
    \/ unhandled(u, m)

\* the handling of one update of user u, by whichever handler accepts it
Deliver(u, m) == DeliverOther(u, m) \/ q5_comments_and_save(u, m)

Next ==
    \/ import_module
    \/ main
    \/ \E u \in Users, m \in Messages : Deliver(u, m)

Spec == Init /\ [][Next]_vars

\* the documents committed to the collection of user u, oldest first
Store(u) == SelectSeq(add_calls, LAMBDA c : c.committed /\ c.path = <<u>>)

---------------------------------------------------------------------------
(* q5_comments_and_save, statement by statement *)

\* faulty variant: the session is cleared before the reply is sent
NextStatement_ClearsFirst(at) ==
    CASE at = "store" -> "save"
      [] at = "save" -> "clear"
      [] at = "clear" -> "reply"
      [] at = "reply" -> "return"
      [] at = "return" -> "none"

\* the statements of q5_comments_and_save in the order of the source: store
\* the comments (line 323), await save_survey_data (330), reply_text (347),
\* user_data.clear() (354), return END (355)
NextStatement(at) ==
    CASE at = "store" -> "save"
      [] at = "save" -> "reply"
      [] at = "reply" -> "clear"
      [] at = "clear" -> "return"
      [] at = "return" -> "none"

\* the call goes on to its next statement
Goto(at) == running' = [running EXCEPT !.at = at]

\* line 323 and line 327: the comments are stored in the record, and
\* final_survey_data refers to the record
q5_store_comments(u, m) ==
    /\ Accepted(u, m)
    /\ Dispatch(u, m).callback = "q5_comments_and_save"
    /\ IF "survey" \in DOMAIN user_data[u]
       THEN LET final_survey_data == Put(user_data[u]["survey"], "comments",
                                         Strip(m.text))
            IN  /\ user_data' = [user_data EXCEPT ![u]["survey"] = final_survey_data]
                /\ running' = [user |-> u, at |-> NextStatement("store"),
                               success |-> "pending",
                               final_survey_data |-> final_survey_data]
                /\ UNCHANGED <<survey_state, feedback_state, add_calls, reply>>
       ELSE Raises(u, "KeyError") /\ UNCHANGED running

\* line 330: success = await save_survey_data(user_id, final_survey_data);
\* the stamps that save_survey_data puts on the dictionary are put on the
\* record of the session, which is the same dictionary
q5_save ==
    /\ running.at = "save"
    /\ \E r \in save_survey_data(running.user, running.final_survey_data) :
          LET stamped == IF r.calls = <<>> THEN running.final_survey_data
                         ELSE r.calls[1].data
          IN  /\ add_calls' = add_calls \o r.calls
              /\ user_data' = [user_data EXCEPT ![running.user] =
                      IF "survey" \in DOMAIN @ THEN Put(@, "survey", stamped) ELSE @]
              /\ running' = [running EXCEPT
                      !.at = NextStatement("save"),
                      !.success = IF r.success THEN "True" ELSE "False",
                      !.final_survey_data = stamped]
    /\ UNCHANGED <<ProcessVars, updates, survey_state, feedback_state, reply>>

\* lines 332-351: the message is chosen by success and sent
q5_reply ==
    /\ running.at = "reply"
    /\ IF running.success = "True"
       THEN Reply(running.user, "success", PainEcho(running.final_survey_data))
       ELSE Reply(running.user, "failure", <<>>)
    /\ Goto(NextStatement("reply"))
    /\ UNCHANGED <<ProcessVars, updates, survey_state, feedback_state, user_data,
                   add_calls>>

\* line 354: context.user_data.clear()
q5_clear ==
    /\ running.at = "clear"
    /\ user_data' = [user_data EXCEPT ![running.user] = EmptyDict]
    /\ Goto(NextStatement("clear"))
    /\ UNCHANGED <<ProcessVars, updates, survey_state, feedback_state, add_calls,
                   reply>>

\* line 355: return ConversationHandler.END
q5_return ==
    /\ running.at = "return"
    /\ SetState("survey", running.user, END)
    /\ running' = NoCall
    /\ UNCHANGED <<ProcessVars, updates, user_data, add_calls, reply>>

NextStatements ==
    \/ import_module
    \/ main
    \/ \E u \in Users, m \in Messages : DeliverOther(u, m)
    \/ \E u \in Users, m \in Messages : q5_store_comments(u, m)
    \/ q5_save
    \/ q5_reply
    \/ q5_clear
    \/ q5_return

\* the program with the last handler of the survey taken statement by
\* statement
SpecStatements == Init /\ [][NextStatements]_vars

---------------------------------------------------------------------------
(* Vocabulary of the properties *)

\* the answer record of user u, or the empty record when there is none
Record(u) == Get(user_data[u], "survey", EmptyDict)

HasRecord(u) == "survey" \in DOMAIN user_data[u]

\* the text of m is an integer on the pain scale
ValidScore(m) == m.has_text /\ IntParses(m.text) /\ IntValue(m.text) \in 0..10

\* m is the cancellation trigger: /cancel or the text of the cancel button
CancelTrigger(m) == m = Command("cancel") \/ m = TextMessage(CANCEL_BTN)

\* the documents committed by the step, for user u
NewlyStored(u) == SubSeq(Store(u)', Len(Store(u)) + 1, Len(Store(u)'))

---------------------------------------------------------------------------
(* C1 *)

\* C1: a message whose text parses as an integer p with 0 <= p <= 10, received
\* while the user's survey is in Q1_PAIN, moves the survey to Q2_SLEEP and
\* leaves pain_score = p in the session record.
C1_ValidScoreAdvances ==
    [][\A u \in Users, m \in Messages :
          (/\ survey_state[u] = Q1_PAIN
           /\ m.has_text /\ IntParses(m.text) /\ IntValue(m.text) \in 0..10
           /\ Deliver(u, m))
          => (/\ survey_state'[u] = Q2_SLEEP
              /\ HasRecord(u)'
              /\ "pain_score" \in DOMAIN Record(u)'
              /\ Record(u)'["pain_score"] = IntValue(m.text))]_vars

\* the text " 5 " was sent at Q1_PAIN, the survey is in Q2_SLEEP and the
\* record holds 5
C1_Witness ==
    \E u \in Users :
          /\ survey_state[u] = Q2_SLEEP
          /\ reply = [to |-> u, kind |-> "sleep_prompt", echo |-> <<5>>]
          /\ Record(u) = [pain_score |-> 5]
          /\ TextMessage(<<" ", "5", " ">>) \in scenario.messages

---------------------------------------------------------------------------
(* C2 *)

\* C2 as claimed: every input received in Q1_PAIN that is no valid score
\* leaves the survey in Q1_PAIN and writes no field of the record.
C2_AnyInvalidInputStays ==
    [][\A u \in Users, m \in Messages :
          (survey_state[u] = Q1_PAIN /\ ~ValidScore(m) /\ Deliver(u, m))
          => (/\ survey_state'[u] = Q1_PAIN
              /\ user_data'[u] = user_data[u]
              /\ add_calls' = add_calls)]_vars

\* C2, amended: every input received in Q1_PAIN that is no valid score and
\* not the cancellation trigger leaves the survey in Q1_PAIN and the session
\* record as it was, and a survey in Q1_PAIN has an empty record (pain_score
\* unset), however many such inputs came before.
C2_InvalidInputStays ==
    [][\A u \in Users, m \in Messages :
          /\ (survey_state[u] = Q1_PAIN /\ ~ValidScore(m) /\ ~CancelTrigger(m)
                /\ Deliver(u, m))
             => (/\ survey_state'[u] = Q1_PAIN
                 /\ user_data'[u] = user_data[u]
                 /\ add_calls' = add_calls)
          /\ survey_state'[u] = Q1_PAIN
             => (HasRecord(u)' /\ Record(u)' = EmptyDict)]_vars

\* two invalid inputs in a row were answered, the second with the error note
C2_Witness ==
    \E u \in Users :
        /\ survey_state[u] = Q1_PAIN
        /\ reply = [to |-> u, kind |-> "invalid_pain", echo |-> <<>>]
        /\ updates >= 3
        /\ Record(u) = EmptyDict

---------------------------------------------------------------------------
(* C3 *)

\* C3: the cancellation trigger, received in any of the five survey states,
\* discards the session record, writes nothing to the store and leaves the
\* user with no active dialog.
C3_CancelLeavesIdle ==
    [][\A u \in Users, m \in Messages :
          (survey_state[u] \in SurveyStates /\ CancelTrigger(m) /\ Deliver(u, m))
          => (/\ ~HasRecord(u)'
              /\ add_calls' = add_calls
              /\ survey_state'[u] = END
              /\ feedback_state'[u] = END)]_vars

---------------------------------------------------------------------------
(* C4 *)

\* the fields of an answer record that a stored document repeats
SameAnswers(data, record) ==
    /\ AnswerFields \subseteq DOMAIN data
    /\ DOMAIN record = AnswerFields
    /\ \A f \in AnswerFields : data[f] = record[f]

\* the record that is complete once m is taken as the comments
WithComments(u, m) == Put(Record(u), "comments", Strip(m.text))

\* m reaches the handler of the survey state that user u is in
AnswerAt(u, m, state) == survey_state[u] = state /\ FilterAnswer(m)

\* C4 as claimed: the fifth answer of a survey run ends the conversation with
\* the session cleared, leaves exactly one new persisted record with the five
\* answers, and is replied to with the pain score out of 10.
C4_RunAlwaysPersists ==
    [][\A u \in Users, m \in Messages :
          (AnswerAt(u, m, Q5_COMMENTS) /\ Deliver(u, m))
          => (/\ survey_state'[u] = END
              /\ user_data'[u] = EmptyDict
              /\ Len(NewlyStored(u)) = 1
              /\ SameAnswers(NewlyStored(u)[1].data, WithComments(u, m))
              /\ reply' = [to |-> u, kind |-> "success",
                           echo |-> <<Record(u)["pain_score"]>>])]_vars

\* C4, amended: the fifth answer of a survey run ends the conversation with
\* the session cleared and makes at most one write; when the write is
\* reported successful, exactly one new record is persisted under the user's
\* path, it holds the five answers as entered, and the reply echoes the
\* entered pain score out of 10; otherwise the reply is the failure notice.
C4_RunPersistsOnSuccess ==
    [][\A u \in Users, m \in Messages :
          (AnswerAt(u, m, Q5_COMMENTS) /\ Deliver(u, m))
          => (/\ survey_state'[u] = END
              /\ user_data'[u] = EmptyDict
              /\ Len(add_calls') <= Len(add_calls) + 1
              /\ reply'.to = u
              /\ reply'.kind \in {"success", "failure"}
              /\ reply'.kind = "success"
                 => (/\ Len(NewlyStored(u)) = 1
                     /\ SameAnswers(NewlyStored(u)[1].data, WithComments(u, m))
                     /\ Record(u)["pain_score"] \in 0..10
                     /\ reply'.echo = <<Record(u)["pain_score"]>>)
              /\ reply'.kind = "failure" => reply'.echo = <<>>)]_vars

\* a run with the score " 5 " was stored and answered with 5 out of 10
C4_Witness ==
    \E u \in Users :
        /\ reply = [to |-> u, kind |-> "success", echo |-> <<5>>]
        /\ survey_state[u] = END
        /\ user_data[u] = EmptyDict
        /\ Len(Store(u)) = 1
        /\ Store(u)[1].data["pain_score"] = 5
        /\ Store(u)[1].data["comments"] = <<"1", "0">>

---------------------------------------------------------------------------
(* C5 *)

\* C5: when the write of the final submission is reported as failed, the
\* reply is the failure notice and no record of that submission is in the
\* store afterwards.
C5_FailureMeansNoRecord ==
    [][\A u \in Users, m \in Messages :
          (AnswerAt(u, m, Q5_COMMENTS) /\ Deliver(u, m) /\ reply'.kind # "success")
          => (/\ reply'.kind = "failure"
              /\ Store(u)' = Store(u))]_vars

---------------------------------------------------------------------------
(* C6 *)

\* C6: the final answer makes at most one write to the gateway and, whether
\* the write succeeds or fails, discards the session record and ends the
\* survey; no other update writes to the gateway (nothing is retried), and a
\* user without a survey conversation has no answers left to submit.
C6_OneWriteThenDiscard ==
    [][/\ \A u \in Users, m \in Messages :
             (AnswerAt(u, m, Q5_COMMENTS) /\ Deliver(u, m))
             => (/\ Len(add_calls') <= Len(add_calls) + 1
                 /\ survey_state'[u] = END
                 /\ user_data'[u] = EmptyDict)
       /\ add_calls' # add_calls
          => (/\ Len(add_calls') = Len(add_calls) + 1
              /\ SubSeq(add_calls', 1, Len(add_calls)) = add_calls
              /\ \E u \in Users :
                    /\ survey_state[u] = Q5_COMMENTS
                    /\ survey_state'[u] = END
                    /\ add_calls'[Len(add_calls')].path = <<u>>)
       /\ \A u \in Users : survey_state'[u] = END => ~HasRecord(u)']_vars

\* a failed write was made once and the session is gone
C6_Witness ==
    \E u \in Users :
        /\ reply = [to |-> u, kind |-> "failure", echo |-> <<>>]
        /\ Len(add_calls) = 1
        /\ ~add_calls[1].committed
        /\ survey_state[u] = END
        /\ ~HasRecord(u)

---------------------------------------------------------------------------
(* C7 *)

\* the value v of field f is what the text of m gives for that field
FromMessage(f, v, m) ==
    /\ m.has_text
    /\ IF f = "pain_score" THEN IntParses(m.text) /\ v = IntValue(m.text)
       ELSE v = Strip(m.text)

\* every answer in data was in the sender's record before, or comes from m
EnteredBy(s, m, data) ==
    \A f \in AnswerFields \cap DOMAIN data :
        \/ f \in DOMAIN Record(s) /\ data[f] = Record(s)[f]
        \/ FromMessage(f, data[f], m)

\* what the model holds of user u
Session(u) == <<survey_state[u], feedback_state[u], user_data[u], Store(u)>>

\* C7: every update handled is the update of one user s: it leaves the
\* survey state, the record and the stored documents of every other user as
\* they were, and when it changes the record of s or stores a document, the
\* document is stored under the path of s and every answer in the record and
\* in the document was already in the record of s or comes from the message
\* of s that is being handled.
C7_UsersDoNotInterfere ==
    [][updates' # updates
       => \E s \in scenario.users :
            /\ reply'.to = s
            /\ \A u \in Users \ {s} : Session(u)' = Session(u)
            /\ (Record(s)' # Record(s) \/ add_calls' # add_calls)
               => \E m \in scenario.messages :
                    /\ Deliver(s, m)
                    /\ EnteredBy(s, m, Record(s)')
                    /\ \A i \in 1..Len(add_calls') :
                         i > Len(add_calls)
                         => (/\ add_calls'[i].path = <<s>>
                             /\ EnteredBy(s, m, add_calls'[i].data))]_vars

\* user 1, who entered 10, is at the last question while user 2, who
\* entered 5, is in a survey of their own
C7_Witness ==
    /\ survey_state[1] = Q5_COMMENTS
    /\ Record(1)["pain_score"] = 10
    /\ survey_state[2] = Q2_SLEEP
    /\ Record(2) = [pain_score |-> 5]

---------------------------------------------------------------------------
(* C8 *)

\* C8: no user is in a survey conversation and in a feedback conversation at
\* the same time.
C8_OneSessionPerUser ==
    \A u \in Users : ~(survey_state[u] # END /\ feedback_state[u] # END)

---------------------------------------------------------------------------
(* C9 *)

\* C9: every write attempted against the gateway, committed or not, carries
\* a record with all five answer fields and a pain score in 0..10.
C9_WritesAreComplete ==
    \A i \in 1..Len(add_calls) :
        /\ AnswerFields \subseteq DOMAIN add_calls[i].data
        /\ add_calls[i].data["pain_score"] \in 0..10

\* a write with the score 0 that was attempted and not committed
C9_Witness ==
    /\ add_calls # <<>>
    /\ ~add_calls[1].committed
    /\ add_calls[1].data["pain_score"] = 0

---------------------------------------------------------------------------
(* C10 *)

\* the token or the base URL is absent from the environment
ConfigMissing ==
    ~Truthy(env.TELEGRAM_TOKEN) \/ ~Truthy(env.RENDER_EXTERNAL_HOSTNAME)

\* C10 as claimed: if the token or the base URL is absent, the error is
\* logged and the process never begins serving: run_webhook is not called
\* and no handler runs.
C10_FailsFast ==
    ConfigMissing
    => (/\ pc # "import" => error_logged
        /\ pc # "run_webhook"
        /\ updates = 0)

\* C10, amended: if the token or the base URL is absent, the error is logged
\* and each absent value is replaced by its placeholder, FAKE_TOKEN or
\* FAKE_URL; the process does not stop there: main() can still run, and calls
\* run_webhook with the placeholders.  The error is logged in no other case.
C10_LogsAndGoesOn ==
    /\ pc # "import"
       => (/\ error_logged = ConfigMissing
           /\ TELEGRAM_TOKEN = IF Truthy(env.TELEGRAM_TOKEN) THEN env.TELEGRAM_TOKEN
                               ELSE "FAKE_TOKEN"
           /\ WEBHOOK_URL = IF Truthy(env.RENDER_EXTERNAL_HOSTNAME)
                            THEN env.RENDER_EXTERNAL_HOSTNAME ELSE "FAKE_URL")
    /\ pc = "loaded" => ENABLED main

\* run_webhook was called with the placeholder URL
C10_Witness ==
    /\ ConfigMissing
    /\ pc = "run_webhook"
    /\ error_logged
    /\ TELEGRAM_TOKEN = "set"
    /\ WEBHOOK_URL = "FAKE_URL"

---------------------------------------------------------------------------
(* C11 *)

\* the user has no conversation in progress
Idle(u) == survey_state[u] = END /\ feedback_state[u] = END

\* the fixed text that belongs to a menu selector
FixedTextOf(m) ==
    CASE m = Command("start") -> "welcome"
      [] m = TextMessage(ILLNESS_BTN) -> "illness_info"
      [] m = TextMessage(INFO_BTN) -> "info"
      [] m = TextMessage(EMERGENCY_BTN) -> "emergency"

\* C11: a message of an idle user whose text is exactly the label of the
\* illness, clinic or emergency button, or the /start command, is answered
\* with the fixed text of that selector, not with the 'not understood' notice
\* and not with silence.
C11_MenuLabelsAnswered ==
    [][\A u \in Users :
          \A m \in { Command("start"), TextMessage(ILLNESS_BTN),
                     TextMessage(INFO_BTN), TextMessage(EMERGENCY_BTN) } :
              (Idle(u) /\ Deliver(u, m))
              => (/\ reply' = [to |-> u, kind |-> FixedTextOf(m), echo |-> <<>>]
                  /\ UNCHANGED <<survey_state, feedback_state, user_data,
                                 add_calls>>)]_vars

---------------------------------------------------------------------------
(* C12 *)

\* the five answers of a complete record, in the order they were asked
Summary(d) ==
    << d["pain_score"], d["sleep_description"], d["medication_compliance"],
       d["side_effects"], d["comments"] >>

\* C12: the reply to the fifth answer is the success or the failure note and
\* shows all five answers of the run, whichever way the write went.
C12_ReplySummarisesAnswers ==
    [][\A u \in Users, m \in Messages :
          (AnswerAt(u, m, Q5_COMMENTS) /\ Deliver(u, m))
          => (/\ reply'.to = u
              /\ reply'.kind \in {"success", "failure"}
              /\ reply'.echo = Summary(WithComments(u, m)))]_vars

---------------------------------------------------------------------------
(* C13 *)

\* C13: while the feedback conversation of a user waits for the feedback
\* text, every non-empty text of that user that is no command and not the
\* cancellation trigger is acknowledged and leaves the user idle, and the
\* cancellation trigger leaves the user idle as well; neither writes to the
\* gateway.
C13_FeedbackTextEndsDialog ==
    [][\A u \in Users, m \in Messages :
          (/\ feedback_state[u] = FEEDBACK_TEXT
           /\ (FilterText(m) /\ ~FilterCommand(m)) \/ CancelTrigger(m)
           /\ Deliver(u, m))
          => (/\ Idle(u)'
              /\ add_calls' = add_calls
              /\ ~CancelTrigger(m)
                 => reply' = [to |-> u, kind |-> "feedback_ack", echo |-> <<>>])]_vars

---------------------------------------------------------------------------
(* C14 *)

\* the text of m is exactly the label of one of the four menu buttons
MenuSelector(m) ==
    m \in { TextMessage(SURVEY_BTN), TextMessage(ILLNESS_BTN),
            TextMessage(INFO_BTN), TextMessage(EMERGENCY_BTN) }

\* C14: a text message of an idle user that is no menu selector and no
\* command is answered with the 'please use the menu' notice, starts no
\* conversation, and changes neither the session data nor the store.
C14_OtherTextGetsNotice ==
    [][\A u \in Users, m \in Messages :
          (/\ Idle(u)
           /\ FilterText(m) /\ ~FilterCommand(m) /\ ~MenuSelector(m)
           /\ Deliver(u, m))
          => (/\ reply' = [to |-> u, kind |-> "not_understood", echo |-> <<>>]
              /\ UNCHANGED <<survey_state, feedback_state, user_data,
                             add_calls>>)]_vars

---------------------------------------------------------------------------
(* C15 *)

\* the field that the answer received in a survey state fills
FieldOf(state) ==
    CASE state = Q1_PAIN -> "pain_score"
      [] state = Q2_SLEEP -> "sleep_description"
      [] state = Q3_MEDICATION -> "medication_compliance"
      [] state = Q4_SIDE_EFFECTS -> "side_effects"
      [] state = Q5_COMMENTS -> "comments"

\* the fields of the steps that lie before a survey state
Passed(state) == {FieldOf(s) : s \in {t \in SurveyStates : t < state}}

\* the record of user u holds the answers of the steps passed, and no other
RecordMatchesState(u) ==
    IF survey_state[u] \in SurveyStates
    THEN HasRecord(u) /\ DOMAIN Record(u) = Passed(survey_state[u])
    ELSE ~HasRecord(u)

\* C15: the survey states are visited in the order Q1_PAIN, Q2_SLEEP,
\* Q3_MEDICATION, Q4_SIDE_EFFECTS, Q5_COMMENTS, END.  A survey starts in
\* Q1_PAIN with an empty record; a state is left only for the next state or,
\* from Q5_COMMENTS or by cancellation, for END; the step to the next state
\* adds the field of the state that is left, and only that field, to the
\* record and leaves the earlier answers as they were; in every state the
\* fields of the record are those of the steps passed.
C15_StrictOrder ==
    [][\A u \in Users :
          /\ RecordMatchesState(u)
          /\ RecordMatchesState(u)'
          /\ survey_state'[u] # survey_state[u]
             => \/ survey_state[u] = END /\ survey_state'[u] = Q1_PAIN
                \/ survey_state[u] \in SurveyStates /\ survey_state'[u] = END
                \/ /\ survey_state[u] \in SurveyStates \ {Q5_COMMENTS}
                   /\ survey_state'[u] = survey_state[u] + 1
                   /\ DOMAIN Record(u)' = DOMAIN Record(u) \cup {FieldOf(survey_state[u])}
                   /\ FieldOf(survey_state[u]) \notin DOMAIN Record(u)
                   /\ \A f \in DOMAIN Record(u) : Record(u)'[f] = Record(u)[f]
          /\ survey_state'[u] = survey_state[u] => Record(u)' = Record(u)]_vars

\* the side-effects question was reached with the first three answers in the
\* record
C15_Witness ==
    \E u \in Users :
        /\ survey_state[u] = Q4_SIDE_EFFECTS
        /\ reply = [to |-> u, kind |-> "side_effects_prompt", echo |-> <<>>]
        /\ DOMAIN Record(u) = {"pain_score", "sleep_description",
                               "medication_compliance"}

---------------------------------------------------------------------------
(* C16 *)

\* C16: whatever the gateway does with the final submission (no database
\* client, no collection, an exception during the write, a write that
\* returns), save_survey_data yields a boolean and nothing else, and the
\* handler of the fifth answer replies with the success or the failure
\* message, ends the survey and leaves the process serving updates.
C16_WriteNeverRaises ==
    [][\A u \in scenario.users, m \in scenario.messages :
          (AnswerAt(u, m, Q5_COMMENTS) /\ Deliver(u, m))
          => (/\ save_survey_data(u, WithComments(u, m)) # {}
              /\ \A r \in save_survey_data(u, WithComments(u, m)) :
                    r.success \in BOOLEAN
              /\ reply'.to = u
              /\ reply'.kind \in {"success", "failure"}
              /\ ~db => reply'.kind = "failure"
              /\ survey_state'[u] = END
              /\ pc' = "run_webhook")]_vars

\* without a database client the fifth answer was replied to with the
\* failure message and the survey ended; no write was attempted
C16_Witness ==
    \E u \in Users :
        /\ ~db
        /\ reply = [to |-> u, kind |-> "failure", echo |-> <<>>]
        /\ add_calls = <<>>
        /\ survey_state[u] = END
        /\ ~HasRecord(u)

---------------------------------------------------------------------------
(* C17 *)

\* the reply is the success or the failure message for user u
FinalReply(r, u) == r.to = u /\ r.kind \in {"success", "failure"}

\* C17: the last handler of the survey does its work in the order store the
\* comments, write, reply, clear the session, end the conversation.  The
\* write is made with the comments in the record and before the reply; the
\* reply is sent when the result of the write is known, says what the result
\* was, and is sent with the session still there and the conversation still
\* at the last question; the session is cleared after the reply; and the
\* conversation ends after the session is cleared.
C17_WriteThenReplyThenClear ==
    [][/\ add_calls' # add_calls
          => (/\ running.at = "save"
              /\ running.success = "pending"
              /\ "comments" \in DOMAIN Record(running.user)
              /\ reply' = reply
              /\ HasRecord(running.user)'
              /\ survey_state' = survey_state)
       /\ (reply' # reply /\ reply'.kind \in {"success", "failure"})
          => (/\ running.at = "reply"
              /\ reply'.to = running.user
              /\ running.success \in {"True", "False"}
              /\ reply'.kind = "success" <=> running.success = "True"
              /\ add_calls' = add_calls
              /\ HasRecord(running.user)
              /\ HasRecord(running.user)'
              /\ survey_state[running.user] = Q5_COMMENTS
              /\ survey_state' = survey_state)
       /\ \A u \in Users :
             /\ (survey_state[u] = Q5_COMMENTS /\ survey_state'[u] = Q5_COMMENTS
                   /\ HasRecord(u) /\ ~HasRecord(u)')
                => (/\ running.at = "clear"
                    /\ running.user = u
                    /\ FinalReply(reply, u)
                    /\ reply' = reply
                    /\ add_calls' = add_calls)
             /\ (survey_state[u] = Q5_COMMENTS /\ survey_state'[u] = END
                   /\ running # NoCall)
                => (/\ running.at = "return"
                    /\ running.user = u
                    /\ ~HasRecord(u)
                    /\ FinalReply(reply, u)
                    /\ reply' = reply
                    /\ add_calls' = add_calls
                    /\ running' = NoCall)
       /\ running.at # running'.at
          => running'.at = IF running.at = "none" THEN "save"
                           ELSE NextStatement(running.at)]_vars

\* a write that returned has been answered with the success message, and the
\* session is still to be cleared
C17_Witness ==
    /\ running.at = "clear"
    /\ running.success = "True"
    /\ FinalReply(reply, running.user)
    /\ HasRecord(running.user)
    /\ "comments" \in DOMAIN Record(running.user)
    /\ Len(add_calls) = 1
    /\ survey_state[running.user] = Q5_COMMENTS

---------------------------------------------------------------------------
(* C18 *)

\* the record d carries, besides the answers, the identifier of user u and
\* one more field (the start time)
Stamped(d, u) ==
    \E f, g \in DOMAIN d \ AnswerFields : f # g /\ d[f] = u

\* C18: a survey in a question state has a session record that carries the
\* identifier of its user and a start time, from Q1_PAIN on, where it holds
\* no answer yet.
C18_RecordsAreStamped ==
    \A u \in Users :
        survey_state[u] \in SurveyStates
        => (/\ HasRecord(u)
            /\ Stamped(Record(u), u)
            /\ survey_state[u] = Q1_PAIN => DOMAIN Record(u) \cap AnswerFields = {})

---------------------------------------------------------------------------
(* C19 *)

\* C19: a user whose survey is in one of the five question states has a
\* session record in the user data, and no handler has failed on a missing
\* record, whatever survey answers, /feedback, feedback texts, cancellations
\* and menu messages the user has sent.
C19_QuestionStateHasRecord ==
    /\ \A u \in Users : survey_state[u] \in SurveyStates => HasRecord(u)
    /\ reply.kind # "KeyError"

\* a survey went on to Q3_MEDICATION after /feedback was sent in the middle
\* of it, and the record is there
C19_Witness ==
    \E u \in Users :
        /\ survey_state[u] = Q3_MEDICATION
        /\ feedback_state[u] = FEEDBACK_TEXT
        /\ reply = [to |-> u, kind |-> "medication_prompt", echo |-> <<>>]
        /\ HasRecord(u)
        /\ "sleep_description" \in DOMAIN Record(u)

---------------------------------------------------------------------------
(* C20 *)

\* the prompt that follows the answer received in a free-text state
PromptAfter(state) ==
    CASE state = Q2_SLEEP -> "medication_prompt"
      [] state = Q3_MEDICATION -> "side_effects_prompt"
      [] state = Q4_SIDE_EFFECTS -> "comments_prompt"

\* m is a text of user u that is no command and not the cancellation
\* trigger, and the survey of u is at a free-text question
FreeTextAt(u, m) ==
    /\ survey_state[u] \in SurveyStates \ {Q1_PAIN}
    /\ FilterText(m) /\ ~FilterCommand(m) /\ ~CancelTrigger(m)

\* the handling of m by the handler of the survey state that user u is in
StepOf(u, m) ==
    CASE survey_state[u] = Q2_SLEEP -> q2_sleep(u, m)
      [] survey_state[u] = Q3_MEDICATION -> q3_medication(u, m)
      [] survey_state[u] = Q4_SIDE_EFFECTS -> q4_side_effects(u, m)
      [] survey_state[u] = Q5_COMMENTS -> q5_comments_and_save(u, m)

\* C20: while the survey of a user is in Q2_SLEEP, Q3_MEDICATION,
\* Q4_SIDE_EFFECTS or Q5_COMMENTS, every text of that user that is no
\* command and not the cancellation trigger, the labels of the menu buttons
\* and of the survey button included, is taken as the answer of the step.
\* It is dispatched to the handler of the state, not to a handler of a fixed
\* text, to other_text, to a fallback or to start_survey; and in Q2..Q4 it is
\* stored, stripped, in the field of the step, the next question is asked and
\* the survey is in the next state with the earlier answers as they were,
\* while in Q5_COMMENTS it is submitted as the comments and the survey ends
\* with the success or the failure message.
C20_AnyTextIsTheAnswer ==
    [][\A u \in scenario.users, m \in scenario.messages :
          /\ FreeTextAt(u, m)
             => Dispatch(u, m) = [conv |-> "survey",
                                  callback |-> SurveyStateCallback(survey_state[u])]
          /\ (FreeTextAt(u, m) /\ StepOf(u, m))
             => (/\ reply'.to = u
                 /\ feedback_state' = feedback_state
                 /\ IF survey_state[u] = Q5_COMMENTS
                    THEN /\ survey_state'[u] = END
                         /\ reply'.kind \in {"success", "failure"}
                         /\ \A i \in 1..Len(add_calls') :
                               i > Len(add_calls)
                               => add_calls'[i].data
                                  = Put(Put(WithComments(u, m), "timestamp",
                                            "SERVER_TIMESTAMP"), "date", "today")
                    ELSE /\ survey_state'[u] = survey_state[u] + 1
                         /\ reply'.kind = PromptAfter(survey_state[u])
                         /\ HasRecord(u)'
                         /\ Record(u)' = Put(Record(u), FieldOf(survey_state[u]),
                                             Strip(m.text))
                         /\ add_calls' = add_calls)]_vars

\* the labels of the survey button and of the illness button were given as
\* the answers to the sleep and the medication question
C20_Witness ==
    \E u \in Users :
        /\ survey_state[u] = Q4_SIDE_EFFECTS
        /\ reply = [to |-> u, kind |-> "side_effects_prompt", echo |-> <<>>]
        /\ Record(u)["sleep_description"] = SURVEY_BTN
        /\ Record(u)["medication_compliance"] = ILLNESS_BTN

====
